---- MODULE Spec2Model ----
(***************************************************************************)
(* Model of pylgtv/webos_client.py: the WebOsClient object, its trust      *)
(* file (.pylgtv), and the per-call websocket conversation with the        *)
(* television (register handshake, then at most one command frame).        *)
(* Several caller threads may use the one client object; a thread is       *)
(* preempted only where the code blocks (connect, send, recv) and inside   *)
(* the read-modify-write of command_count.                                 *)
(***************************************************************************)
EXTENDS Integers, Sequences, FiniteSets, TLC

\* ---------------------------------------------------------------- bounds
NumThreads == 2
MaxCalls == 2

Threads == 1..NumThreads
Hosts == {"A", "B"}
Creds == {"k1", "k2"}
Payloads == {"p1", "p2"}

\* self.timeout, in clock ticks
Timeout == 2

\* Python's None, for a str-or-None attribute
None == "None"

\* ------------------------------------------------------------ trust file
\* The text of the trust file is a sequence of tokens: '{', one token per
\* "host": "key" member, '}'.  The empty text is the empty sequence.
LBrace == [t |-> "{", h |-> "", k |-> ""]
RBrace == [t |-> "}", h |-> "", k |-> ""]
Member(h, k) == [t |-> "member", h |-> h, k |-> k]

EmptyText == << >>
NoFile == [exists |-> FALSE, raw |-> EmptyText]
File(raw) == [exists |-> TRUE, raw |-> raw]

\* A dict is an insertion-ordered sequence of <<host, key>> with unique hosts.
EmptyDict == << >>

DictHas(d, h) == \E i \in 1..Len(d) : d[i][1] = h

DictGet(d, h) == d[CHOOSE i \in 1..Len(d) : d[i][1] = h][2]

\* key_dict[h] = k
DictSet(d, h, k) ==
    IF DictHas(d, h)
    THEN [i \in 1..Len(d) |-> IF d[i][1] = h THEN <<h, k>> ELSE d[i]]
    ELSE Append(d, <<h, k>>)

\* json.dumps(key_dict)
RECURSIVE DumpMembers(_)
DumpMembers(d) ==
    IF d = << >> THEN << >>
    ELSE <<Member(Head(d)[1], Head(d)[2])>> \o DumpMembers(Tail(d))

\* (a dump that loses the members)
json_dumps_lossy(d) == <<LBrace, RBrace>>
json_dumps(d) == <<LBrace>> \o DumpMembers(d) \o <<RBrace>>

\* json.loads(raw_data) of a well-formed object text
RECURSIVE LoadMembers(_, _)
LoadMembers(toks, d) ==
    IF toks = << >> THEN d
    ELSE LoadMembers(Tail(toks), DictSet(d, Head(toks).h, Head(toks).k))

json_loads(raw) == LoadMembers(SubSeq(raw, 2, Len(raw) - 1), EmptyDict)

\* open(path, 'w+'): the file is created or truncated to zero length
open_w_plus(f) == File(EmptyText)

\* json.loads(raw) returns a dict: the text is one well-formed object
json_valid(raw) ==
    /\ Len(raw) >= 2
    /\ raw[1] = LBrace /\ raw[Len(raw)] = RBrace
    /\ \A i \in 2..(Len(raw) - 1) : raw[i].t = "member"

\* load_key_file raises: json.loads is reached (the file is there and its
\* text is not empty) and rejects the text
\* (a load without the `if raw_data:` guard)
load_raises_unguarded(f) == f.exists /\ ~json_valid(f.raw)
load_raises(f) == f.exists /\ f.raw # EmptyText /\ ~json_valid(f.raw)

\* load_key_file: the client_key found for ip in file f
load_key_file(f, h) ==
    LET key_dict == IF f.exists /\ f.raw # EmptyText
                    THEN json_loads(f.raw) ELSE EmptyDict
    IN  IF DictHas(key_dict, h) THEN DictGet(key_dict, h) ELSE None

\* save_key_file: the file left behind when the client for host h holds key
\* (a save that returns before it writes)
save_key_file_skip(f, h, key) == f
save_key_file(f, h, key) ==
    IF key = None THEN f
    ELSE LET opened == open_w_plus(f)
             raw_data == opened.raw
             key_dict == IF raw_data # EmptyText
                         THEN json_loads(raw_data) ELSE EmptyDict
         IN  File(json_dumps(DictSet(key_dict, h, key)))

\* ----------------------------------------------------------------- frames
HandshakeId == [prefix |-> "register", n |-> 0]
NotifyId == [prefix |-> "notify", n |-> 0]
\* "{}_{}".format(type, self.command_count): `type` is the builtin
CommandId(request_type, n) == [prefix |-> "<class 'type'>", n |-> n]

Frame(type, id, pairingType, key, val) ==
    [type |-> type, id |-> id, pairingType |-> pairingType,
     key |-> key, val |-> val]

NoFrame == Frame("none", HandshakeId, "", None, None)

\* handshake['payload']['client-key'] = self.client_key
RegisterFrame(key) == Frame("register", HandshakeId, "", key, None)

\* frames the television can answer a register frame with
Registered(k) == Frame("registered", HandshakeId, "", k, None)
PairingResponse(pt) == Frame("response", HandshakeId, pt, None, None)
HsError == Frame("error", HandshakeId, "", None, "rejected")

HsFrames ==
    {Registered(k) : k \in Creds}
    \cup {PairingResponse(pt) : pt \in {"PROMPT", "absent"}}
    \cup {HsError}

\* frames the television can send after a command frame with id `id`
CmdFrames(id) ==
    {Frame("response", i, "", None, v) : i \in {id, NotifyId}, v \in Payloads}
    \cup {Frame("error", id, "", None, "err")}

\* the branch conditions of _send_register_payload
\* (a test that takes every reply but an error for the prompt)
IsPromptUnlessError(response) == response.type # "error"
IsPrompt(response) ==
    response.type = "response" /\ response.pairingType = "PROMPT"

\* (a test that looks for the wrong frame type)
IsRegisteredWrongType(response) == response.type = "response"
IsRegistered(response) == response.type = "registered"

\* response['payload']['client-key']
\* (a read that yields None whatever the frame carries)
client_key_dropped(response) == None
client_key_of(response) == response.key

\* response['payload']['pairingType'] raises KeyError
PairingTypeMissing(response) ==
    response.type = "response" /\ response.pairingType = "absent"

VARIABLES
    fs,             \* the trust file
    ip,             \* self.ip
    client_key,     \* self.client_key
    command_count,  \* self.command_count
    last_response,  \* self.last_response
    pc,             \* per thread: where its public call stands
    op,             \* per thread: the public operation it runs
    tmp,            \* per thread: the value read by command_count += 1
    msg,            \* per thread: the command message built
    sock,           \* per thread: its websocket ("none", "open", "closed")
    sent,           \* per thread: frames written to its websocket
    rcvd,           \* per thread: frames read by _send_register_payload
    resp,           \* per thread: the frame read by _command
    hs,             \* per thread: how far the handshake on its socket got
    result,         \* per thread: how the call ended
    ret,            \* per thread: the value returned to the caller
    fs0,            \* per thread: the trust file when its call began
    key0,           \* per thread: client_key when its call began
    prev,           \* the call this client completed last
    fresh,          \* no call was made on this client object yet
    ctor,           \* how __init__ of this client object ended
    last_saved,     \* the host and key of the last save_key_file that wrote
    waited,         \* per thread: ticks spent in the websocket.recv it is in
    calls           \* public calls started so far

vars == <<fs, ip, client_key, command_count, last_response,
          pc, op, tmp, msg, sock, sent, rcvd, resp, hs, result, ret,
          fs0, key0, prev, fresh, ctor, last_saved, waited, calls>>

client == <<ip, client_key, command_count, last_response>>

\* what a thread holds of its call
local == <<op, tmp, msg, sock, sent, rcvd, resp, hs, result, ret, fs0, key0,
           waited>>

\* what is remembered of the call before: nothing, a register() that sent a
\* stored credential and returned after the one reply `registered`, or any
\* other call
NoCall == "none"
Summary(o, res, out, in) ==
    IF /\ o = "register" /\ res = "ok"
       /\ Len(out) = 1 /\ out[1].key # None
       /\ Len(in) = 1 /\ in[1].type = "registered"
    THEN "paired" ELSE "other"
NoSave == [h |-> "", k |-> None]

\* trust files that can be on disk when a client is constructed
InitDicts ==
    {<< >>}
    \cup {<< <<"A", "k1">> >>, << <<"B", "k2">> >>}
    \cup {<< <<"A", "k1">>, <<"B", "k2">> >>}

InitFiles ==
    {NoFile, File(EmptyText)} \cup {File(json_dumps(d)) : d \in InitDicts}

\* WebOsClient.__init__ for host h
Init ==
    /\ fs \in InitFiles
    /\ ip \in Hosts
    /\ client_key = IF load_raises(fs) THEN None ELSE load_key_file(fs, ip)
    /\ command_count = 0
    /\ last_response = NoFrame
    /\ pc = [t \in Threads |-> "idle"]
    /\ op = [t \in Threads |-> "none"]
    /\ tmp = [t \in Threads |-> 0]
    /\ msg = [t \in Threads |-> NoFrame]
    /\ sock = [t \in Threads |-> "none"]
    /\ sent = [t \in Threads |-> << >>]
    /\ rcvd = [t \in Threads |-> << >>]
    /\ resp = [t \in Threads |-> NoFrame]
    /\ hs = [t \in Threads |-> "Init"]
    /\ result = [t \in Threads |-> "none"]
    /\ ret = [t \in Threads |-> None]
    /\ fs0 = [t \in Threads |-> NoFile]
    /\ key0 = [t \in Threads |-> None]
    /\ prev = NoCall
    /\ fresh = TRUE
    /\ ctor = IF load_raises(fs) THEN "ValueError" ELSE "ok"
    /\ last_saved = NoSave
    /\ waited = [t \in Threads |-> 0]
    /\ calls = 0

\* ------------------------------------------------------------- helpers
\* (an end of call without the finally clause)
Ends_without_close(t, res) ==
    /\ pc' = [pc EXCEPT ![t] = "done"]
    /\ result' = [result EXCEPT ![t] = res]
    /\ UNCHANGED sock

\* the call of thread t ends (the finally clause closes its websocket)
Ends(t, res) ==
    /\ pc' = [pc EXCEPT ![t] = "done"]
    /\ result' = [result EXCEPT ![t] = res]
    /\ sock' = [sock EXCEPT ![t] = IF sock[t] = "open" THEN "closed" ELSE sock[t]]

\* _send_register_payload has returned normally in thread t: register()
\* returns, _command goes on
AfterHandshake(t) ==
    IF op[t] = "register"
    THEN Ends(t, "ok")
    ELSE /\ pc' = [pc EXCEPT ![t] = "send_cmd"]
         /\ UNCHANGED <<result, sock>>

\* a public call begins in thread t
Begins(t, o) ==
    /\ pc[t] = "idle"
    /\ ctor = "ok"
    /\ calls < MaxCalls
    /\ calls' = calls + 1
    /\ op' = [op EXCEPT ![t] = o]
    /\ fs0' = [fs0 EXCEPT ![t] = fs]
    /\ key0' = [key0 EXCEPT ![t] = client_key]
    /\ fresh' = FALSE

\* ------------------------------------------------------------- actions
\* WebOsClient(h): a new client object replaces the old one
Construct(h) ==
    /\ \A t \in Threads : pc[t] = "idle"
    /\ calls < MaxCalls
    /\ ip' = h
    /\ client_key' = IF load_raises(fs) THEN None ELSE load_key_file(fs, h)
    /\ ctor' = IF load_raises(fs) THEN "ValueError" ELSE "ok"
    /\ command_count' = 0
    /\ last_response' = NoFrame
    /\ prev' = NoCall
    /\ fresh' = TRUE
    /\ UNCHANGED <<fs, pc, local, last_saved, calls>>

\* register(): start of the call
register(t) ==
    /\ Begins(t, "register")
    /\ pc' = [pc EXCEPT ![t] = "connect"]
    /\ UNCHANGED <<fs, client, tmp, msg, sock, sent, rcvd, resp, hs, result,
                   ret, prev, ctor, last_saved>>
    /\ UNCHANGED waited

\* command(request_type, uri, payload): the load of command_count += 1
command(t, request_type) ==
    /\ Begins(t, request_type)
    /\ tmp' = [tmp EXCEPT ![t] = command_count]
    /\ pc' = [pc EXCEPT ![t] = "build"]
    /\ UNCHANGED <<fs, client, msg, sock, sent, rcvd, resp, hs, result, ret,
                   prev, ctor, last_saved>>
    /\ UNCHANGED waited

\* command(): the store of command_count += 1, the message, last_response
command_build(t) ==
    /\ pc[t] = "build"
    /\ command_count' = tmp[t] + 1
    /\ msg' = [msg EXCEPT ![t] =
                 Frame(op[t], CommandId(op[t], command_count'), "", None, None)]
    /\ last_response' = NoFrame
    /\ pc' = [pc EXCEPT ![t] = "connect"]
    /\ UNCHANGED <<fs, ip, client_key, op, tmp, sock, sent, rcvd, resp, hs,
                   result, ret, fs0, key0, prev, fresh, ctor, last_saved, calls>>
    /\ UNCHANGED waited

\* (a connect whose failure is dropped: the call goes on without a socket)
_connect_ws_ignored(t, outcome) ==
    /\ pc[t] = "connect"
    /\ sock' = [sock EXCEPT ![t] = IF outcome = "ok" THEN "open" ELSE @]
    /\ pc' = [pc EXCEPT ![t] = "send_register"]
    /\ UNCHANGED <<fs, client, op, tmp, msg, sent, rcvd, resp, hs, result, ret,
                   fs0, key0, prev, fresh, ctor, last_saved, calls, waited>>

\* _connect_ws: the socket opens, or wait_for times out, or connect raises
_connect_ws(t, outcome) ==
    /\ pc[t] = "connect"
    /\ CASE outcome = "ok" ->
              /\ sock' = [sock EXCEPT ![t] = "open"]
              /\ pc' = [pc EXCEPT ![t] = "send_register"]
              /\ UNCHANGED result
         [] outcome = "timeout" -> Ends(t, "TimeoutError")
         [] OTHER -> Ends(t, "OSError")
    /\ UNCHANGED <<fs, client, op, tmp, msg, sent, rcvd, resp, hs, ret,
                   fs0, key0, prev, fresh, ctor, last_saved, calls>>
    /\ UNCHANGED waited

\* _send_register_payload up to websocket.send
send_register(t) ==
    /\ pc[t] = "send_register"
    /\ sent' = [sent EXCEPT ![t] = Append(@, RegisterFrame(client_key))]
    /\ hs' = [hs EXCEPT ![t] = "AwaitFirstReply"]
    /\ pc' = [pc EXCEPT ![t] = "recv1"]
    /\ UNCHANGED <<fs, client, op, tmp, msg, sock, rcvd, resp, result, ret,
                   fs0, key0, prev, fresh, ctor, last_saved, calls>>
    /\ UNCHANGED waited

\* _send_register_payload: the first websocket.recv and the branch on it
recv1(t, f) ==
    /\ pc[t] = "recv1"
    /\ rcvd' = [rcvd EXCEPT ![t] = Append(@, f)]
    /\ IF PairingTypeMissing(f)
       THEN /\ Ends(t, "KeyError")
            /\ hs' = [hs EXCEPT ![t] = "Failed"]
       ELSE IF IsPrompt(f)
            THEN /\ pc' = [pc EXCEPT ![t] = "recv2"]
                 /\ hs' = [hs EXCEPT ![t] = "AwaitUserConfirmation"]
                 /\ UNCHANGED <<result, sock>>
            ELSE /\ AfterHandshake(t)
                 /\ hs' = [hs EXCEPT ![t] =
                             IF IsRegistered(f) THEN "Paired" ELSE "Failed"]
    /\ UNCHANGED <<fs, client, op, tmp, msg, sent, resp, ret,
                   fs0, key0, prev, fresh, ctor, last_saved, calls>>
    /\ waited' = [waited EXCEPT ![t] = 0]

\* _send_register_payload: the second websocket.recv, after the prompt
recv2(t, f) ==
    /\ pc[t] = "recv2"
    /\ rcvd' = [rcvd EXCEPT ![t] = Append(@, f)]
    /\ IF IsRegistered(f)
       THEN /\ client_key' = client_key_of(f)
            /\ fs' = save_key_file(fs, ip, client_key')
            /\ last_saved' = [h |-> ip, k |-> client_key']
            /\ hs' = [hs EXCEPT ![t] = "Paired"]
       ELSE /\ hs' = [hs EXCEPT ![t] = "Failed"]
            /\ UNCHANGED <<client_key, fs, last_saved>>
    /\ AfterHandshake(t)
    /\ UNCHANGED <<ip, command_count, last_response, op, tmp, msg, sent, resp,
                   ret, fs0, key0, prev, fresh, ctor, calls>>
    /\ waited' = [waited EXCEPT ![t] = 0]

\* (a recv whose ConnectionClosed is caught and dropped)
recv_closed_swallowed(t) ==
    /\ pc[t] \in {"recv1", "recv2", "recv_resp"}
    /\ Ends(t, "ok")
    /\ hs' = [hs EXCEPT ![t] = IF pc[t] = "recv_resp" THEN @ ELSE "Failed"]
    /\ UNCHANGED <<fs, client, op, tmp, msg, sent, rcvd, resp, ret,
                   fs0, key0, prev, fresh, ctor, last_saved, calls>>
    /\ waited' = [waited EXCEPT ![t] = 0]

\* websocket.recv raises ConnectionClosed (any of the three recv calls)
recv_closed(t) ==
    /\ pc[t] \in {"recv1", "recv2", "recv_resp"}
    /\ Ends(t, "ConnectionClosed")
    /\ hs' = [hs EXCEPT ![t] = IF pc[t] = "recv_resp" THEN @ ELSE "Failed"]
    /\ UNCHANGED <<fs, client, op, tmp, msg, sent, rcvd, resp, ret,
                   fs0, key0, prev, fresh, ctor, last_saved, calls>>
    /\ waited' = [waited EXCEPT ![t] = 0]

\* _command after the handshake: the client_key test and websocket.send(msg)
send_cmd(t) ==
    /\ pc[t] = "send_cmd"
    /\ IF client_key = None
       THEN \* PyLGTVPairException("Unable to pair") lacks the `message` argument
            /\ Ends(t, "TypeError")
            /\ UNCHANGED sent
       ELSE /\ sent' = [sent EXCEPT ![t] = Append(@, msg[t])]
            /\ IF msg[t].type = "request"
               THEN /\ pc' = [pc EXCEPT ![t] = "recv_resp"]
                    /\ UNCHANGED <<result, sock>>
               ELSE Ends(t, "ok")
    /\ UNCHANGED <<fs, client, op, tmp, msg, rcvd, resp, hs, ret,
                   fs0, key0, prev, fresh, ctor, last_saved, calls>>
    /\ UNCHANGED waited

\* _command: the recv after a request, stored in last_response
recv_resp(t, f) ==
    /\ pc[t] = "recv_resp"
    /\ resp' = [resp EXCEPT ![t] = f]
    /\ last_response' = f
    /\ sock' = [sock EXCEPT ![t] = "closed"]
    /\ pc' = [pc EXCEPT ![t] = "return"]
    /\ UNCHANGED <<fs, ip, client_key, command_count, op, tmp, msg, sent, rcvd,
                   hs, result, ret, fs0, key0, prev, fresh, ctor, last_saved, calls>>
    /\ waited' = [waited EXCEPT ![t] = 0]

\* get_audio_status: return self.last_response['payload']
get_audio_status_return(t) ==
    /\ pc[t] = "return"
    /\ IF last_response = NoFrame
       THEN /\ Ends(t, "TypeError")
            /\ UNCHANGED ret
       ELSE /\ ret' = [ret EXCEPT ![t] = last_response.val]
            /\ Ends(t, "ok")
    /\ UNCHANGED <<fs, client, op, tmp, msg, sent, rcvd, resp, hs,
                   fs0, key0, prev, fresh, ctor, last_saved, calls>>
    /\ UNCHANGED waited

\* the caller of thread t has its result and is free for the next call
Finish(t) ==
    /\ pc[t] = "done"
    /\ prev' = Summary(op[t], result[t], sent[t], rcvd[t])
    /\ pc' = [pc EXCEPT ![t] = "idle"]
    /\ op' = [op EXCEPT ![t] = "none"]
    /\ tmp' = [tmp EXCEPT ![t] = 0]
    /\ msg' = [msg EXCEPT ![t] = NoFrame]
    /\ sock' = [sock EXCEPT ![t] = "none"]
    /\ sent' = [sent EXCEPT ![t] = << >>]
    /\ rcvd' = [rcvd EXCEPT ![t] = << >>]
    /\ resp' = [resp EXCEPT ![t] = NoFrame]
    /\ hs' = [hs EXCEPT ![t] = "Init"]
    /\ result' = [result EXCEPT ![t] = "none"]
    /\ ret' = [ret EXCEPT ![t] = None]
    /\ fs0' = [fs0 EXCEPT ![t] = NoFile]
    /\ key0' = [key0 EXCEPT ![t] = None]
    /\ UNCHANGED <<fs, client, fresh, ctor, last_saved, calls>>
    /\ UNCHANGED waited

\* a clock tick passes while thread t is blocked in websocket.recv, which is
\* called without a timeout
Tick(t) ==
    /\ pc[t] \in {"recv1", "recv2", "recv_resp"}
    /\ waited[t] <= Timeout
    /\ waited' = [waited EXCEPT ![t] = @ + 1]
    /\ UNCHANGED <<fs, client, pc, op, tmp, msg, sock, sent, rcvd, resp, hs,
                   result, ret, fs0, key0, prev, fresh, ctor, last_saved, calls>>

\* one step of a call in progress
Step ==
    \/ \E t \in Threads : command_build(t)
    \/ \E t \in Threads, o \in {"ok", "timeout", "refused"} : _connect_ws(t, o)
    \/ \E t \in Threads : send_register(t)
    \/ \E t \in Threads, f \in HsFrames : recv1(t, f)
    \/ \E t \in Threads, f \in HsFrames : recv2(t, f)
    \/ \E t \in Threads : recv_closed(t)
    \/ \E t \in Threads : send_cmd(t)
    \/ \E t \in Threads : \E f \in CmdFrames(msg[t].id) : recv_resp(t, f)
    \/ \E t \in Threads : get_audio_status_return(t)
    \/ \E t \in Threads : Finish(t)

\* no other thread is inside a public call
Alone(t) == \A u \in Threads \ {t} : pc[u] = "idle"

\* the client is used by one caller at a time
Next ==
    \/ \E h \in Hosts : Construct(h)
    \/ \E t \in Threads : Alone(t) /\ register(t)
    \/ \E t \in Threads, ty \in {"request", "subscribe"} : Alone(t) /\ command(t, ty)
    \/ Step

Spec == Init /\ [][Next]_vars

\* the client is shared by threads that call it concurrently
NextThreads ==
    \/ \E h \in Hosts : Construct(h)
    \/ \E t \in Threads : register(t)
    \/ \E t \in Threads, ty \in {"request", "subscribe"} : command(t, ty)
    \/ Step

SpecThreads == Init /\ [][NextThreads]_vars

\* one caller at a time, with the passing of time while it waits for a frame
NextTimed ==
    \/ Next
    \/ \E t \in Threads : Tick(t)

SpecTimed == Init /\ [][NextTimed]_vars

\* ================================================================ claims

\* C1: persisting the credential of the client's host leaves every credential
\* stored in the trust file for another host unchanged: a step that rewrites
\* the file keeps each member "b": k of a host b other than the client's.
C1_OtherHostsKept ==
    [][\A b \in Hosts, k \in Creds :
         (b # ip /\ fs' # fs /\ fs.exists
            /\ \E i \in 1..Len(fs.raw) : fs.raw[i] = Member(b, k))
         => \E i \in 1..Len(fs'.raw) : fs'.raw[i] = Member(b, k)]_vars

\* C2: on every connection a request/subscribe/unsubscribe frame is sent only
\* when the handshake on that connection has reached Paired.
C2_NoCommandBeforePaired ==
    \A t \in Threads :
        (\E i \in 1..Len(sent[t]) :
            sent[t][i].type \in {"request", "subscribe", "unsubscribe"})
        => hs[t] = "Paired"

\* C3: a command never makes the television prompt: no thread running a
\* command is ever waiting for the user's confirmation.
C3_CommandNeverPrompts ==
    \A t \in Threads :
        op[t] \in {"request", "subscribe"} => hs[t] # "AwaitUserConfirmation"

\* C4: when the first frame after the register frame is an error, the
\* handshake is Failed and register() does not return normally.
C4_ErrorReplyFailsRegister ==
    \A t \in Threads :
        (op[t] = "register" /\ pc[t] = "done"
            /\ Len(rcvd[t]) = 1 /\ rcvd[t][1].type = "error")
        => (hs[t] = "Failed" /\ result[t] # "ok")

\* C5: the step that ends the wait for the user's confirmation: on a
\* `registered` frame the handshake is Paired, the frame's key is the client's
\* credential and is in the trust file under the client's host; on any other
\* frame or a closed socket the handshake is Failed and neither the credential
\* nor the trust file changes.
C5_ConfirmationOutcome ==
    [][\A t \in Threads :
         (pc[t] = "recv2" /\ pc'[t] # "recv2")
         => IF Len(rcvd'[t]) = 2 /\ rcvd'[t][2].type = "registered"
            THEN /\ hs'[t] = "Paired"
                 /\ client_key' = rcvd'[t][2].key
                 /\ fs'.exists
                 /\ \E i \in 1..Len(fs'.raw) :
                        fs'.raw[i] = Member(ip, rcvd'[t][2].key)
            ELSE /\ hs'[t] = "Failed"
                 /\ client_key' = client_key
                 /\ fs' = fs]_vars

C5_Witness ==
    \E t \in Threads :
        /\ Len(rcvd[t]) = 2
        /\ rcvd[t][1].type = "response" /\ rcvd[t][1].pairingType = "PROMPT"
        /\ rcvd[t][2].type = "registered"
        /\ hs[t] = "Paired"
        /\ key0[t] # rcvd[t][2].key
        /\ client_key = rcvd[t][2].key
        /\ \E i \in 1..Len(fs.raw) : fs.raw[i] = Member(ip, client_key)

\* C6: first-time pairing: a register() that began with no trust file, got the
\* prompt reply and then `registered` with key K, has sent one register frame
\* without client-key, returns normally, leaves the trust file holding exactly
\* {host: K}, and the client is registered with K.
C6_FirstPairing ==
    \A t \in Threads :
        (/\ op[t] = "register" /\ ~fs0[t].exists
         /\ Len(rcvd[t]) = 2
         /\ rcvd[t][1].type = "response" /\ rcvd[t][1].pairingType = "PROMPT"
         /\ rcvd[t][2].type = "registered")
        => /\ pc[t] = "done" /\ result[t] = "ok"
           /\ Len(sent[t]) = 1
           /\ sent[t][1].type = "register" /\ sent[t][1].key = None
           /\ fs = [exists |-> TRUE,
                    raw |-> <<LBrace, Member(ip, rcvd[t][2].key), RBrace>>]
           /\ client_key = rcvd[t][2].key /\ client_key # None

C6_Witness ==
    \E t \in Threads :
        /\ op[t] = "register" /\ ~fs0[t].exists /\ pc[t] = "done"
        /\ Len(rcvd[t]) = 2 /\ rcvd[t][2].type = "registered"
        /\ sent[t][1].key = None
        /\ fs.exists /\ fs.raw = <<LBrace, Member(ip, client_key), RBrace>>

\* C7: a register() of a client that holds a credential, answered `registered`
\* at once (the credential is valid), sends that credential, reads no second
\* frame, returns normally and leaves credential and trust file as they were;
\* so it is for the second of two such calls in a row.
C7_IdempotentPairing ==
    \A t \in Threads :
        (/\ op[t] = "register" /\ key0[t] # None
         /\ Len(rcvd[t]) >= 1 /\ rcvd[t][1].type = "registered")
        => /\ pc[t] = "done" /\ result[t] = "ok"
           /\ Len(rcvd[t]) = 1
           /\ Len(sent[t]) = 1
           /\ sent[t][1].type = "register" /\ sent[t][1].key = key0[t]
           /\ client_key = key0[t]
           /\ fs = fs0[t]

C7_Witness ==
    \E t \in Threads :
        /\ prev = "paired"
        /\ op[t] = "register" /\ key0[t] # None /\ pc[t] = "done"
        /\ result[t] = "ok"
        /\ Len(rcvd[t]) = 1 /\ rcvd[t][1].type = "registered"
        /\ sent[t][1].key = key0[t]
        /\ client_key = key0[t] /\ fs = fs0[t]

\* C8: a client object constructed for host H after save_key_file last wrote
\* key K for H, and before any call on it, holds credential K.
C8_TrustRoundTrip ==
    (fresh /\ last_saved.h = ip) => client_key = last_saved.k

C8_Witness ==
    /\ fresh /\ last_saved.h = ip
    /\ last_saved.k \in Creds
    /\ client_key = last_saved.k
    /\ calls > 0

\* C9: concurrent one-shot requests: a request whose own socket delivered the
\* response carrying its id returns normally with exactly that response's
\* payload.
C9_CorrelatedResult ==
    \A t \in Threads :
        (/\ op[t] = "request" /\ pc[t] = "done"
         /\ resp[t].type = "response" /\ resp[t].id = msg[t].id)
        => (result[t] = "ok" /\ ret[t] = resp[t].val)

\* C10: a frame whose id matches no pending call is dropped: it is never what
\* a request returns.
C10_UnsolicitedDropped ==
    \A t \in Threads :
        (op[t] = "request" /\ resp[t].type # "none" /\ resp[t].id = NotifyId)
        => ~(pc[t] = "done" /\ result[t] = "ok" /\ ret[t] = resp[t].val)

\* C11: a request answered by an error frame carrying its id fails: the call
\* does not return normally (it never hands the error frame's payload to the
\* caller as a result).
C11_ErrorFrameFails ==
    \A t \in Threads :
        (/\ op[t] = "request" /\ pc[t] = "done"
         /\ resp[t].type = "error" /\ resp[t].id = msg[t].id)
        => result[t] # "ok"

\* C12: a request does not wait for its response longer than the configured
\* timeout: once more than Timeout ticks have passed in the recv of _command
\* with no frame arriving, the call is no longer blocked there.
C12_RequestTimesOut ==
    \A t \in Threads : pc[t] = "recv_resp" => waited[t] <= Timeout

\* C13: when the socket of a call blocked in websocket.recv (in the handshake
\* or waiting for the response) closes without a frame having been read, the
\* call ends at once with the connection-closed error and returns no result.
C13_ConnectionLost ==
    [][\A t \in Threads :
         (/\ pc[t] \in {"recv1", "recv2", "recv_resp"}
          /\ sock[t] = "open" /\ sock'[t] = "closed"
          /\ rcvd'[t] = rcvd[t] /\ resp'[t] = resp[t])
         => (/\ pc'[t] = "done"
             /\ result'[t] = "ConnectionClosed"
             /\ ret'[t] = None)]_vars

C13_Witness ==
    \E t \in Threads :
        /\ op[t] = "request" /\ pc[t] = "done"
        /\ Len(sent[t]) = 2 /\ resp[t].type = "none"
        /\ sock[t] = "closed"
        /\ result[t] = "ConnectionClosed" /\ ret[t] = None

\* C14: the command frames built by calls that are in progress at the same
\* time on one client carry pairwise distinct ids, and none of them is the id
\* of the handshake frame.
C14_IdsUnique ==
    /\ \A t \in Threads, u \in Threads :
           (t # u /\ msg[t] # NoFrame /\ msg[u] # NoFrame)
           => msg[t].id # msg[u].id
    /\ \A t \in Threads : msg[t] # NoFrame => msg[t].id # HandshakeId

\* C15: a call that ended without its socket ever having opened (the connect
\* failed or timed out) ended with the connect error, sent no frame, and left
\* the client's credential and the trust file as they were when it began.
C15_ConnectFailed ==
    \A t \in Threads :
        (pc[t] = "done" /\ sock[t] = "none")
        => /\ result[t] \in {"TimeoutError", "OSError"}
           /\ sent[t] = << >>
           /\ client_key = key0[t]
           /\ fs = fs0[t]

C15_Witness ==
    \E t \in Threads :
        /\ pc[t] = "done" /\ sock[t] = "none"
        /\ op[t] = "request" /\ result[t] = "TimeoutError"
        /\ key0[t] \in Creds /\ client_key = key0[t]
        /\ fs0[t].exists /\ fs = fs0[t]

\* C16: constructing a client (which looks its credential up) while the trust
\* file is missing or empty leaves the client without a credential, raises
\* no error, and neither creates nor modifies the file.
C16_MissingOrEmptyFile ==
    [][(fresh' /\ (~fs.exists \/ fs.raw = << >>))
       => (/\ client_key' = "None"
           /\ ctor' = "ok"
           /\ fs' = fs)]_vars

C16_Witness ==
    /\ fresh /\ calls > 0
    /\ fs.exists /\ fs.raw = << >>
    /\ client_key = "None" /\ ctor = "ok"

\* C17: after a subscribe command has been sent and the call has returned,
\* the subscription's connection is still open, so that frames carrying the
\* subscription id can be delivered to the caller.
C17_SubscriptionStaysOpen ==
    \A t \in Threads :
        (op[t] = "subscribe" /\ pc[t] = "done" /\ result[t] = "ok")
        => sock[t] = "open"

\* C18: when the handshake inside a command has ended and the client holds no
\* credential, the next step of the command raises PyLGTVPairException, sends
\* no command frame, and closes the socket.
C18_UnpairedCommandRaises ==
    [][\A t \in Threads :
         (pc[t] = "send_cmd" /\ client_key = "None" /\ pc'[t] # pc[t])
         => (/\ result'[t] = "PyLGTVPairException"
             /\ sent'[t] = sent[t]
             /\ sock'[t] = "closed")]_vars

\* C19: whenever a thread is outside a call or its call has ended (returned
\* or raised), its socket is not open; and the frames sent on the connection
\* of a call are at most one register frame, sent first, followed by at most
\* one command frame.
C19_SocketClosedPerCall ==
    \A t \in Threads :
        /\ pc[t] \in {"idle", "return", "done"} => sock[t] # "open"
        /\ Len(sent[t]) <= 2
        /\ \A i \in 1..Len(sent[t]) : (sent[t][i].type = "register") <=> (i = 1)

C19_Witness ==
    \E t \in Threads :
        /\ op[t] = "request" /\ pc[t] = "done"
        /\ result[t] = "TypeError" /\ hs[t] = "Failed"
        /\ Len(sent[t]) = 1 /\ Len(rcvd[t]) = 2
        /\ sock[t] = "closed"

\* C20: on one client object (steps other than constructing a client), a
\* credential that is held is never cleared; and the credential changes only
\* in a step where a thread waiting after the prompt receives a registered
\* frame, after which client_key is the key of that frame and the trust file
\* holds that key for the client's host.
C20_CredentialKept ==
    [][~fresh' =>
         /\ client_key # "None" => client_key' # "None"
         /\ client_key' # client_key =>
              \E t \in Threads :
                  /\ pc[t] = "recv2"
                  /\ Len(rcvd'[t]) = Len(rcvd[t]) + 1
                  /\ rcvd'[t][Len(rcvd'[t])].type = "registered"
                  /\ client_key' = rcvd'[t][Len(rcvd'[t])].key
                  /\ fs'.exists
                  /\ \E i \in 1..Len(fs'.raw) :
                         fs'.raw[i] = [t |-> "member", h |-> ip, k |-> client_key']]_vars

C20_Witness ==
    \E t \in Threads :
        /\ key0[t] \in Creds /\ client_key \in Creds /\ client_key # key0[t]
        /\ Len(rcvd[t]) = 2 /\ rcvd[t][2].type = "registered"
        /\ rcvd[t][2].key = client_key
        /\ fs.exists
        /\ \E i \in 1..Len(fs.raw) :
               fs.raw[i] = [t |-> "member", h |-> ip, k |-> client_key]

====
